---------------------------- MODULE Spec2Model ----------------------------
(***************************************************************************)
(* A model of sf-parking-map: the temporal-rule engine (time-parser.js:    *)
(* parseDays, parseTimeRange, isActiveAt, intersectsRange and              *)
(* calculateCoverage) and the map component (SfParkingMap.jsx: the         *)
(* classification and the styling of a segment, and the debounced loading  *)
(* of the segments of the viewport).                                       *)
(*                                                                         *)
(* JavaScript values are tagged records, strings are sequences of          *)
(* one-character strings, and every call of the library is one step of the *)
(* state machine: `call` holds the function and its arguments, `ret` the   *)
(* value it returned.  The loading of the map is a second specification    *)
(* over the timer, the timeouts of the browser and the loads in flight.    *)
(***************************************************************************)
EXTENDS Integers, Sequences, FiniteSets, TLC

VARIABLES
    call,       \* the call of the library in progress
    ret,        \* the value it returned
    clock,      \* the time, in milliseconds
    timer,      \* timer.current of useDebouncedCallback
    timeouts,   \* the timeouts the browser holds
    loads,      \* the loads that wait for their response
    geojson,    \* the state geojson of SfParkingMap
    status,     \* the state status of SfParkingMap
    moves,      \* the moveend events so far (history)
    fetches,    \* the fetches issued so far (history)
    done,       \* the responses so far, in the order they arrived (history)
    concurrent  \* a fetch was issued while a load was waiting (history)

libVars == <<call, ret>>
mapVars == <<clock, timer, timeouts, loads, geojson, status, moves, fetches,
             done, concurrent>>
vars == <<call, ret, clock, timer, timeouts, loads, geojson, status, moves,
          fetches, done, concurrent>>

(***************************************************************************)
(* JavaScript values                                                       *)
(***************************************************************************)
Undefined == [t |-> "undefined"]
Null      == [t |-> "null"]
Str(s)    == [t |-> "string", v |-> s]
Num(n)    == [t |-> "number", v |-> n]
Bool(b)   == [t |-> "boolean", v |-> b]
SetOf(S)  == [t |-> "Set", v |-> S]

\* The one number that is not an integer of the model. Every other number the
\* parsers produce is >= 0, and all arithmetic and comparisons on parsed numbers
\* go through JsAdd .. JsGe below, which treat it as IEEE-754 treats NaN.
NaN == -1

JsAdd(a, b) == IF a = NaN \/ b = NaN THEN NaN ELSE a + b
JsMul(a, b) == IF a = NaN \/ b = NaN THEN NaN ELSE a * b
JsLt(a, b)  == a # NaN /\ b # NaN /\ a < b
JsLe(a, b)  == a # NaN /\ b # NaN /\ a <= b
JsGe(a, b)  == a # NaN /\ b # NaN /\ a >= b
JsEq(a, b)  == a # NaN /\ b # NaN /\ a = b

TypeOf(x) == x.t

\* !x
Falsy(x) ==
    \/ x.t \in {"undefined", "null"}
    \/ x.t = "string" /\ x.v = <<>>
    \/ x.t = "number" /\ (x.v = 0 \/ x.v = NaN)
    \/ x.t = "boolean" /\ ~x.v

(***************************************************************************)
(* Strings                                                                 *)
(***************************************************************************)
Lowers == <<"a","b","c","d","e","f","g","h","i","j","k","l","m",
            "n","o","p","q","r","s","t","u","v","w","x","y","z">>
Uppers == <<"A","B","C","D","E","F","G","H","I","J","K","L","M",
            "N","O","P","Q","R","S","T","U","V","W","X","Y","Z">>
Digits == <<"0","1","2","3","4","5","6","7","8","9">>

IsDigit(c) == \E i \in 1..10 : Digits[i] = c
DigitVal(c) == (CHOOSE i \in 1..10 : Digits[i] = c) - 1
\* the regular expressions' \s, on the characters the inputs use
IsSpace(c) == c \in {" ", "\t"}

UpperChar(c) ==
    IF \E i \in 1..26 : Lowers[i] = c
    THEN Uppers[CHOOSE i \in 1..26 : Lowers[i] = c] ELSE c
LowerChar(c) ==
    IF \E i \in 1..26 : Uppers[i] = c
    THEN Lowers[CHOOSE i \in 1..26 : Uppers[i] = c] ELSE c

ToUpperCase(s) == [i \in 1..Len(s) |-> UpperChar(s[i])]
ToLowerCase(s) == [i \in 1..Len(s) |-> LowerChar(s[i])]

\* s.includes(sub)
Includes(s, sub) ==
    \E i \in 1..(Len(s) - Len(sub) + 1) : SubSeq(s, i, i + Len(sub) - 1) = sub

\* s.replace(/\s/g, '')
RemoveWhitespace(s) == SelectSeq(s, LAMBDA c : ~IsSpace(c))

\* s.trim()
RECURSIVE TrimLeft(_)
TrimLeft(s) == IF s # <<>> /\ IsSpace(Head(s)) THEN TrimLeft(Tail(s)) ELSE s
RECURSIVE TrimRight(_)
TrimRight(s) ==
    IF s # <<>> /\ IsSpace(s[Len(s)]) THEN TrimRight(SubSeq(s, 1, Len(s) - 1)) ELSE s
Trim(s) == TrimRight(TrimLeft(s))

\* s.substring(a, b) for 0 <= a <= b: 0-based, end exclusive, clamped to the length
Substring(s, a, b) == SubSeq(s, a + 1, IF b > Len(s) THEN Len(s) ELSE b)

\* a parser that forgets to pad
PadStart4_NoPad(s) == s

\* s.padStart(4, '0')
RECURSIVE PadStart4(_)
PadStart4(s) == IF Len(s) >= 4 THEN s ELSE PadStart4(<<"0">> \o s)

\* str.split(/[,;\s]+/): a run of separators is one separator (the + of the
\* pattern); the pieces before a leading and after a trailing separator are
\* empty strings, as in JavaScript.
IsDaySep(c) == c \in {",", ";"} \/ IsSpace(c)
RECURSIVE SplitDaysFrom(_, _, _)
SplitDaysFrom(s, i, cur) ==
    IF i > Len(s) THEN <<cur>>
    ELSE IF IsDaySep(s[i])
         THEN IF i > 1 /\ IsDaySep(s[i - 1])
              THEN SplitDaysFrom(s, i + 1, cur)
              ELSE <<cur>> \o SplitDaysFrom(s, i + 1, <<>>)
         ELSE SplitDaysFrom(s, i + 1, Append(cur, s[i]))
SplitDays(s) == SplitDaysFrom(s, 1, <<>>)

\* part.split('-'): every '-' separates
RECURSIVE SplitDashFrom(_, _, _)
SplitDashFrom(s, i, cur) ==
    IF i > Len(s) THEN <<cur>>
    ELSE IF s[i] = "-"
         THEN <<cur>> \o SplitDashFrom(s, i + 1, <<>>)
         ELSE SplitDashFrom(s, i + 1, Append(cur, s[i]))
SplitDash(s) == SplitDashFrom(s, 1, <<>>)

AllDigits(s) == \A i \in 1..Len(s) : IsDigit(s[i])

\* parseInt(x, 10) of a value that is undefined or a string without sign or
\* leading blanks: the value of the leading run of digits, NaN when there is none
RECURSIVE DigitRun(_, _)
DigitRun(s, acc) ==
    IF s # <<>> /\ IsDigit(Head(s))
    THEN DigitRun(Tail(s), acc * 10 + DigitVal(Head(s))) ELSE acc
ParseInt(x) ==
    IF x.t # "string" \/ x.v = <<>> \/ ~IsDigit(Head(x.v)) THEN NaN
    ELSE DigitRun(x.v, 0)

(***************************************************************************)
(* parseDays                                                               *)
(***************************************************************************)
\* DAY_MAP[key]
DAY_MAP(key) ==
    CASE key = <<"S","U">> -> Num(0)
      [] key = <<"M","O">> -> Num(1)
      [] key = <<"M">>     -> Num(1)
      [] key = <<"T","U">> -> Num(2)
      [] key = <<"W","E">> -> Num(3)
      [] key = <<"W">>     -> Num(3)
      [] key = <<"T","H">> -> Num(4)
      [] key = <<"F","R">> -> Num(5)
      [] key = <<"F">>     -> Num(5)
      [] key = <<"S","A">> -> Num(6)
      [] OTHER             -> Undefined

\* a range that leaves out its last day (i < end for i <= end)
PartDays_OpenEnd(part) ==
    IF Includes(part, <<"-">>)
    THEN LET pieces == SplitDash(part)
             start  == DAY_MAP(Trim(pieces[1]))
             end    == DAY_MAP(Trim(pieces[2]))
         IN IF start # Undefined /\ end # Undefined
            THEN start.v..(end.v - 1)
            ELSE {}
    ELSE LET day == DAY_MAP(Trim(part))
         IN IF day # Undefined THEN {day.v} ELSE {}

\* a range that runs over the end of the week wraps around (FR-MO is FR, SA,
\* SU, MO)
PartDays_WrapAround(part) ==
    IF Includes(part, <<"-">>)
    THEN LET pieces == SplitDash(part)
             start  == DAY_MAP(Trim(pieces[1]))
             end    == DAY_MAP(Trim(pieces[2]))
         IN IF start # Undefined /\ end # Undefined
            THEN IF start.v <= end.v THEN start.v..end.v
                 ELSE (start.v..6) \cup (0..end.v)
            ELSE {}
    ELSE LET day == DAY_MAP(Trim(part))
         IN IF day # Undefined THEN {day.v} ELSE {}

\* the days one part adds (the body of the for loop)
PartDays(part) ==
    IF Includes(part, <<"-">>)
    THEN LET pieces == SplitDash(part)
             start  == DAY_MAP(Trim(pieces[1]))
             end    == DAY_MAP(Trim(pieces[2]))
         IN IF start # Undefined /\ end # Undefined
            THEN start.v..end.v
            ELSE {}
    ELSE LET day == DAY_MAP(Trim(part))
         IN IF day # Undefined THEN {day.v} ELSE {}

\* a parser that returns the set it built even when it is empty
DaysResult_NoNull(days) == SetOf(days)

\* return days.size > 0 ? days : null
DaysResult(days) == IF Cardinality(days) > 0 THEN SetOf(days) ELSE Null

parseDays(str) ==
    IF Falsy(str) \/ TypeOf(str) # "string" THEN Null
    ELSE LET parts == SplitDays(ToUpperCase(str.v))
             days  == UNION {PartDays(parts[i]) : i \in 1..Len(parts)}
         IN DaysResult(days)

(***************************************************************************)
(* parseTimeRange                                                          *)
(***************************************************************************)
Window(s, e) == [t |-> "object", startMin |-> s, endMin |-> e]
\* the result of String.prototype.match: the capture groups, undefined for a
\* group that took no part in the match
Match(groups) == [t |-> "match", g |-> groups]

\* cleaned.match(/^(\d{3,4})-(\d{3,4})$/)
MatchHHMM(s) ==
    LET p == SplitDash(s)
    IN IF /\ Len(p) = 2
          /\ Len(p[1]) \in 3..4 /\ AllDigits(p[1])
          /\ Len(p[2]) \in 3..4 /\ AllDigits(p[2])
       THEN Match(<<Str(p[1]), Str(p[2])>>)
       ELSE Null

\* One side of the second pattern, (\d{1,2})(:?(\d{2}))?(am|pm)? matched against
\* the whole of `side`: its four groups, or Null. The match is unique: a run of
\* three digits can only be one hour digit and two minute digits, a run of four
\* two and two, and one of one or two digits is the hour alone.
MatchSide(side) ==
    LET n     == Len(side)
        hasAp == n >= 2 /\ SubSeq(side, n - 1, n) \in {<<"a","m">>, <<"p","m">>}
        ap    == IF hasAp THEN Str(SubSeq(side, n - 1, n)) ELSE Undefined
        body  == IF hasAp THEN SubSeq(side, 1, n - 2) ELSE side
        k     == Len(body)
    IN IF Includes(body, <<":">>)
       THEN IF /\ k \in 4..5 /\ body[k - 2] = ":"
               /\ AllDigits(SubSeq(body, 1, k - 3))
               /\ AllDigits(SubSeq(body, k - 1, k))
            THEN <<Str(SubSeq(body, 1, k - 3)), Str(SubSeq(body, k - 2, k)),
                   Str(SubSeq(body, k - 1, k)), ap>>
            ELSE Null
       ELSE IF k \in 1..4 /\ AllDigits(body)
            THEN IF k <= 2
                 THEN <<Str(body), Undefined, Undefined, ap>>
                 ELSE <<Str(SubSeq(body, 1, k - 2)), Str(SubSeq(body, k - 1, k)),
                        Str(SubSeq(body, k - 1, k)), ap>>
            ELSE Null

\* cleaned.match(/^(\d{1,2})(:?(\d{2}))?(am|pm)?-(\d{1,2})(:?(\d{2}))?(am|pm)?$/):
\* eight groups, numbered by their opening parentheses
MatchFlex(s) ==
    LET p == SplitDash(s)
    IN IF Len(p) = 2 /\ MatchSide(p[1]) # Null /\ MatchSide(p[2]) # Null
       THEN Match(MatchSide(p[1]) \o MatchSide(p[2]))
       ELSE Null

\* x || y
JsOr(x, y) == IF Falsy(x) THEN y ELSE x

\* the body of `if (match)` for the HHMM-HHMM pattern
FromHHMM(match) ==
    LET startStr  == PadStart4(match.g[1].v)
        endStr    == PadStart4(match.g[2].v)
        startHour == ParseInt(Str(Substring(startStr, 0, 2)))
        startMin  == ParseInt(Str(Substring(startStr, 2, 4)))
        endHour   == ParseInt(Str(Substring(endStr, 0, 2)))
        endMin    == ParseInt(Str(Substring(endStr, 2, 4)))
    IN Window(JsAdd(JsMul(startHour, 60), startMin),
              JsAdd(JsMul(endHour, 60), endMin))

\* the body of `if (match)` for the am/pm pattern. The destructuring
\* let [, h1, m1, ampm1, h2, m2, ampm2] = match takes groups 1 to 6 of the eight.
FromFlex(match) ==
    LET h1    == match.g[1]
        m1    == match.g[2]
        ampm1 == match.g[3]
        h2    == match.g[4]
        m2    == match.g[5]
        ampm2 == match.g[6]
        startHour0 == ParseInt(h1)
        startMin   == ParseInt(JsOr(m1, Str(<<"0">>)))
        endHour0   == ParseInt(h2)
        endMin     == ParseInt(JsOr(m2, Str(<<"0">>)))
        startHour1 == IF ampm1 = Str(<<"p","m">>) /\ JsLt(startHour0, 12)
                      THEN JsAdd(startHour0, 12) ELSE startHour0
        startHour2 == IF ampm1 = Str(<<"a","m">>) /\ JsEq(startHour1, 12)
                      THEN 0 ELSE startHour1
        endHour1   == IF ampm2 = Str(<<"p","m">>) /\ JsLt(endHour0, 12)
                      THEN JsAdd(endHour0, 12) ELSE endHour0
        endHour    == IF ampm2 = Str(<<"a","m">>) /\ JsEq(endHour1, 12)
                      THEN 0 ELSE endHour1
        startHour  == IF /\ ~Falsy(ampm2) /\ Falsy(ampm1)
                         /\ \/ JsLt(endHour, startHour2)
                            \/ JsEq(endHour, startHour2) /\ JsLt(endMin, startMin)
                         /\ JsLt(startHour2, 12)
                      THEN JsAdd(startHour2, 12) ELSE startHour2
    IN Window(JsAdd(JsMul(startHour, 60), startMin),
              JsAdd(JsMul(endHour, 60), endMin))

\* a parser that forgets "24 HR"
AllDayWords_AnytimeOnly == {<<"A","N","Y","T","I","M","E">>}

\* the substrings that make a string all-day
AllDayWords == {<<"A","N","Y","T","I","M","E">>, <<"2","4"," ","H","R">>}

\* a parser that answers "all day" when no format matches
NoMatch_AllDay == Window(0, 1440)

\* return null; // Return null if no format matches
NoMatch == Null

parseTimeRange(str) ==
    IF \/ Falsy(str) \/ TypeOf(str) # "string"
       \/ \E w \in AllDayWords : Includes(ToUpperCase(str.v), w)
    THEN Window(0, 1440)
    ELSE LET cleaned == RemoveWhitespace(ToLowerCase(str.v))
         IN IF MatchHHMM(cleaned) # Null THEN FromHHMM(MatchHHMM(cleaned))
            ELSE IF MatchFlex(cleaned) # Null THEN FromFlex(MatchFlex(cleaned))
            ELSE NoMatch

(***************************************************************************)
(* isActiveAt                                                              *)
(***************************************************************************)
\* a Date, by what the library reads of it
Date(d, h, m) == [t |-> "Date", day |-> d, hours |-> h, minutes |-> m]

\* (dayOfWeek - 1) % 7, which is -1 on a Sunday in JavaScript
Yesterday_NoWrap(dayOfWeek) == IF dayOfWeek = 0 THEN 0 - 1 ELSE dayOfWeek - 1

\* const yesterday = (dayOfWeek - 1 + 7) % 7
Yesterday(dayOfWeek) == (dayOfWeek - 1 + 7) % 7

\* an overnight window read with && for ||
TimeOnlyActive_OvernightAnd(timeRange, nowMinutes) ==
    JsGe(nowMinutes, timeRange.startMin) /\ JsLt(nowMinutes, timeRange.endMin)

\* a window that is open at its start (> for >=)
TimeOnlyActive_OpenStart(timeRange, nowMinutes) ==
    IF JsLe(timeRange.endMin, timeRange.startMin)
    THEN nowMinutes > timeRange.startMin \/ JsLt(nowMinutes, timeRange.endMin)
    ELSE nowMinutes > timeRange.startMin /\ JsLt(nowMinutes, timeRange.endMin)

\* the branch `if (!activeDays && timeRange)`
TimeOnlyActive(timeRange, nowMinutes) ==
    IF JsLe(timeRange.endMin, timeRange.startMin)
    THEN JsGe(nowMinutes, timeRange.startMin) \/ JsLt(nowMinutes, timeRange.endMin)
    ELSE JsGe(nowMinutes, timeRange.startMin) /\ JsLt(nowMinutes, timeRange.endMin)

\* a same-day window that is closed at its end (<= for <)
DayAndTimeActive_ClosedEnd(activeDays, timeRange, dayOfWeek, nowMinutes) ==
    LET yesterday == Yesterday(dayOfWeek)
    IN IF JsLe(timeRange.endMin, timeRange.startMin)
       THEN IF yesterday \in activeDays.v /\ JsLt(nowMinutes, timeRange.endMin)
            THEN TRUE
            ELSE IF dayOfWeek \in activeDays.v /\ JsGe(nowMinutes, timeRange.startMin)
            THEN TRUE
            ELSE FALSE
       ELSE /\ dayOfWeek \in activeDays.v
            /\ JsGe(nowMinutes, timeRange.startMin)
            /\ JsLe(nowMinutes, timeRange.endMin)

\* the branch `if (activeDays && timeRange)`
DayAndTimeActive(activeDays, timeRange, dayOfWeek, nowMinutes) ==
    LET yesterday == Yesterday(dayOfWeek)
    IN IF JsLe(timeRange.endMin, timeRange.startMin)
       THEN IF yesterday \in activeDays.v /\ JsLt(nowMinutes, timeRange.endMin)
            THEN TRUE
            ELSE IF dayOfWeek \in activeDays.v /\ JsGe(nowMinutes, timeRange.startMin)
            THEN TRUE
            ELSE FALSE
       ELSE /\ dayOfWeek \in activeDays.v
            /\ JsGe(nowMinutes, timeRange.startMin)
            /\ JsLt(nowMinutes, timeRange.endMin)

\* the four branches of isActiveAt, on what the two parsers returned
ActiveWhen(activeDays, timeRange, dayOfWeek, nowMinutes) ==
    IF Falsy(activeDays) /\ Falsy(timeRange) THEN TRUE
    ELSE IF Falsy(activeDays) /\ ~Falsy(timeRange)
    THEN TimeOnlyActive(timeRange, nowMinutes)
    ELSE IF ~Falsy(activeDays) /\ Falsy(timeRange)
    THEN dayOfWeek \in activeDays.v
    ELSE IF ~Falsy(activeDays) /\ ~Falsy(timeRange)
    THEN DayAndTimeActive(activeDays, timeRange, dayOfWeek, nowMinutes)
    ELSE FALSE

isActiveAt(props, date) ==
    ActiveWhen(parseDays(props.days), parseTimeRange(props.hours),
               date.day, date.hours * 60 + date.minutes)

(***************************************************************************)
(* intersectsRange                                                         *)
(***************************************************************************)
\* Math.max and Math.min of two numbers: NaN when either is NaN
MathMax(a, b) == IF a = NaN \/ b = NaN THEN NaN ELSE IF a >= b THEN a ELSE b
MathMin(a, b) == IF a = NaN \/ b = NaN THEN NaN ELSE IF a <= b THEN a ELSE b

\* start.getHours() * 60 + start.getMinutes()
MinuteOfDay(date) == date.hours * 60 + date.minutes

\* two ranges that touch are taken to overlap (<= for <)
Overlaps_Touching(ruleRange, userRange) ==
    JsLe(MathMax(ruleRange.start, userRange.start),
         MathMin(ruleRange.end, userRange.end))

\* Math.max(ruleRange.start, userRange.start) < Math.min(ruleRange.end, userRange.end)
Overlaps(ruleRange, userRange) ==
    JsLt(MathMax(ruleRange.start, userRange.start),
         MathMin(ruleRange.end, userRange.end))

\* the day check is skipped
DayExcluded_Never(activeDays, dayOfWeek) == FALSE

\* if (activeDays && !activeDays.has(dayOfWeek))
DayExcluded(activeDays, dayOfWeek) ==
    ~Falsy(activeDays) /\ dayOfWeek \notin activeDays.v

\* a record without a time rule intersects nothing
NoTimeRule_False == FALSE

\* if (!regTime) return true
NoTimeRule == TRUE

intersectsRange(props, start, end) ==
    LET activeDays   == parseDays(props.days)
        regTime      == parseTimeRange(props.hours)
        dayOfWeek    == start.day
        userRange    == [start |-> MinuteOfDay(start), end |-> MinuteOfDay(end)]
    IN IF DayExcluded(activeDays, dayOfWeek) THEN FALSE
       ELSE IF Falsy(regTime) THEN NoTimeRule
       ELSE IF JsLe(regTime.endMin, regTime.startMin)
       THEN LET ruleRange1 == [start |-> regTime.startMin, end |-> 1440]
                ruleRange2 == [start |-> 0, end |-> regTime.endMin]
            IN Overlaps(ruleRange1, userRange) \/ Overlaps(ruleRange2, userRange)
       ELSE LET ruleRange == [start |-> regTime.startMin, end |-> regTime.endMin]
            IN Overlaps(ruleRange, userRange)

(***************************************************************************)
(* calculateCoverage                                                       *)
(***************************************************************************)
\* The quotient n / d of two integers, d > 0, in lowest terms: two quotients
\* are the same JavaScript number iff they are the same fraction, for the
\* minute counts of a day.
RECURSIVE Gcd(_, _)
Gcd(a, b) == IF b = 0 THEN a ELSE Gcd(b, a % b)
Abs(n) == IF n < 0 THEN 0 - n ELSE n
Quotient(n, d) ==
    LET g == Gcd(Abs(n), d)
    IN [t |-> "number", num |-> IF n < 0 THEN 0 - (Abs(n) \div g) ELSE n \div g,
        den |-> d \div g]

\* s starts with the word w at position i
StartsAt(s, i, w) ==
    i + Len(w) - 1 <= Len(s) /\ SubSeq(s, i, i + Len(w) - 1) = w

\* only the words "no parking" with exactly one blank are recognised
IsNoParking_OneBlank(regulation) ==
    Includes(regulation, <<"n","o"," ","p","a","r","k","i","n","g">>)

\* /no\s*parking|tow-?away/.test(regulation)
IsNoParking(regulation) ==
    \/ \E i \in 1..Len(regulation), k \in 0..Len(regulation) :
          /\ StartsAt(regulation, i, <<"n","o">>)
          /\ \A j \in (i + 2)..(i + 1 + k) : j <= Len(regulation) /\ IsSpace(regulation[j])
          /\ StartsAt(regulation, i + 2 + k, <<"p","a","r","k","i","n","g">>)
    \/ \E i \in 1..Len(regulation) :
          /\ StartsAt(regulation, i, <<"t","o","w">>)
          /\ \/ StartsAt(regulation, i + 3, <<"a","w","a","y">>)
             \/ StartsAt(regulation, i + 3, <<"-","a","w","a","y">>)

\* the minutes that an overlap of the rule's range [ruleStart, ruleEnd) with
\* the user's range adds: overlapEnd - overlapStart if overlapStart < overlapEnd
OverlapOf(ruleStart, ruleEnd, userStartMin, userEndMin) ==
    LET overlapStart == MathMax(ruleStart, userStartMin)
        overlapEnd   == MathMin(ruleEnd, userEndMin)
    IN IF JsLt(overlapStart, overlapEnd) THEN overlapEnd - overlapStart ELSE 0

\* the whole query is taken to fall into the window
OverlapMinutes_WholeQuery(regTime, userStartMin, userEndMin) ==
    userEndMin - userStartMin

\* the part of an overnight window after midnight is not counted
OverlapMinutes_EveningOnly(regTime, userStartMin, userEndMin) ==
    IF Falsy(regTime) THEN userEndMin - userStartMin
    ELSE IF JsEq(regTime.startMin, 0) /\ JsEq(regTime.endMin, 1440)
    THEN userEndMin - userStartMin
    ELSE IF JsLe(regTime.endMin, regTime.startMin)
    THEN OverlapOf(regTime.startMin, 1440, userStartMin, userEndMin)
    ELSE OverlapOf(regTime.startMin, regTime.endMin, userStartMin, userEndMin)

\* let overlapMinutes = 0; if (!regTime) ... else ...
OverlapMinutes(regTime, userStartMin, userEndMin) ==
    IF Falsy(regTime) THEN userEndMin - userStartMin
    ELSE IF JsEq(regTime.startMin, 0) /\ JsEq(regTime.endMin, 1440)
    THEN userEndMin - userStartMin
    ELSE IF JsLe(regTime.endMin, regTime.startMin)
    THEN OverlapOf(regTime.startMin, 1440, userStartMin, userEndMin)
         + OverlapOf(0, regTime.endMin, userStartMin, userEndMin)
    ELSE OverlapOf(regTime.startMin, regTime.endMin, userStartMin, userEndMin)

\* timeLimit.match(/(\d+)/): the first run of digits of the string, <<>> when
\* it has no digit
RECURSIVE FirstDigits(_)
FirstDigits(s) ==
    IF s = <<>> THEN <<>>
    ELSE IF IsDigit(Head(s)) THEN s
    ELSE FirstDigits(Tail(s))

\* the hours text is not consulted for a limit
TimeLimitMinutes_NoFallback(props) ==
    LET timeLimit == props.hrlimit
    IN IF ~Falsy(timeLimit) /\ TypeOf(timeLimit) = "string"
       THEN IF FirstDigits(timeLimit.v) # <<>>
            THEN Num(JsMul(ParseInt(Str(FirstDigits(timeLimit.v))), 60))
            ELSE Null
       ELSE IF TypeOf(timeLimit) = "number"
       THEN Num(JsMul(timeLimit.v, 60))
       ELSE Null

\* the limit is taken in minutes (no * 60)
TimeLimitMinutes_AsMinutes(props) ==
    LET timeLimit == JsOr(props.hrlimit, props.hours)
    IN IF ~Falsy(timeLimit) /\ TypeOf(timeLimit) = "string"
       THEN IF FirstDigits(timeLimit.v) # <<>>
            THEN Num(ParseInt(Str(FirstDigits(timeLimit.v))))
            ELSE Null
       ELSE IF TypeOf(timeLimit) = "number"
       THEN Num(timeLimit.v)
       ELSE Null

\* const timeLimit = props.hrlimit || props.hours; let timeLimitMinutes = null;
\* a string gives 60 times its first integer, a number 60 times itself
TimeLimitMinutes(props) ==
    LET timeLimit == JsOr(props.hrlimit, props.hours)
    IN IF ~Falsy(timeLimit) /\ TypeOf(timeLimit) = "string"
       THEN IF FirstDigits(timeLimit.v) # <<>>
            THEN Num(JsMul(ParseInt(Str(FirstDigits(timeLimit.v))), 60))
            ELSE Null
       ELSE IF TypeOf(timeLimit) = "number"
       THEN Num(JsMul(timeLimit.v, 60))
       ELSE Null

\* only a negative duration is refused (< for <=)
NoDuration_Negative(userDurationMin) == userDurationMin < 0

\* if (userDurationMin <= 0) return 0
NoDuration(userDurationMin) == userDurationMin <= 0

\* the regulation is taken to apply on every day
AppliesToday_Always(activeDays, dayOfWeek) == TRUE

\* const regulationAppliesToday = !activeDays || activeDays.has(dayOfWeek)
AppliesToday(activeDays, dayOfWeek) ==
    Falsy(activeDays) \/ dayOfWeek \in activeDays.v

\* the regulated share of the query is returned for the free one
FreeFraction_Regulated(userDurationMin, overlapMinutes) ==
    Quotient(overlapMinutes, userDurationMin)

\* const freeMinutes = userDurationMin - overlapMinutes;
\* return freeMinutes / userDurationMin
FreeFraction(userDurationMin, overlapMinutes) ==
    Quotient(userDurationMin - overlapMinutes, userDurationMin)

calculateCoverage(props, start, end) ==
    LET activeDays      == parseDays(props.days)
        regTime         == parseTimeRange(props.hours)
        dayOfWeek       == start.day
        regulation      == ToLowerCase(JsOr(props.regulation, Str(<<>>)).v)
        userStartMin    == MinuteOfDay(start)
        userEndMin      == MinuteOfDay(end)
        userDurationMin == userEndMin - userStartMin
        isNoParking     == IsNoParking(regulation)
        overlapMinutes  == OverlapMinutes(regTime, userStartMin, userEndMin)
        timeLimitMinutes == TimeLimitMinutes(props)
    IN IF NoDuration(userDurationMin) THEN Quotient(0, 1)
       ELSE IF ~AppliesToday(activeDays, dayOfWeek) THEN Quotient(1, 1)
       ELSE IF overlapMinutes = 0 THEN Quotient(1, 1)
       ELSE IF isNoParking
       THEN FreeFraction(userDurationMin, overlapMinutes)
       ELSE IF ~Falsy(timeLimitMinutes) /\ overlapMinutes > 0
       THEN LET allowedMinutes ==
                    IF timeLimitMinutes.v <= overlapMinutes
                    THEN timeLimitMinutes.v ELSE overlapMinutes
                freeMinutes == (userDurationMin - overlapMinutes) + allowedMinutes
            IN IF freeMinutes >= userDurationMin THEN Quotient(1, 1)
               ELSE Quotient(freeMinutes, userDurationMin)
       ELSE FreeFraction(userDurationMin, overlapMinutes)

(***************************************************************************)
(* The map (SfParkingMap.jsx): classification and styling of a segment     *)
(***************************************************************************)
\* a character that \b takes for part of a word; the texts are in lower case
IsWordChar(c) ==
    IsDigit(c) \/ c = "_" \/ \E i \in 1..26 : Lowers[i] = c

\* /w1\s*w2/.test(s)
Spaced(s, w1, w2) ==
    \E i \in 1..Len(s), k \in 0..Len(s) :
        /\ StartsAt(s, i, w1)
        /\ \A j \in (i + Len(w1))..(i + Len(w1) + k - 1) :
              j <= Len(s) /\ IsSpace(s[j])
        /\ StartsAt(s, i + Len(w1) + k, w2)

\* /\b\d+\s*(min|hour|hr|h)\b/.test(s)
HasDuration(s) ==
    \E i \in 1..Len(s), n \in 1..Len(s), k \in 0..Len(s) :
        /\ i = 1 \/ ~IsWordChar(s[i - 1])
        /\ i + n - 1 <= Len(s)
        /\ \A j \in i..(i + n - 1) : IsDigit(s[j])
        /\ \A j \in (i + n)..(i + n + k - 1) : j <= Len(s) /\ IsSpace(s[j])
        /\ \E unit \in {<<"m","i","n">>, <<"h","o","u","r">>, <<"h","r">>, <<"h">>} :
              /\ StartsAt(s, i + n + k, unit)
              /\ LET next == i + n + k + Len(unit)
                 IN next > Len(s) \/ ~IsWordChar(s[next])

\* /commercial|truck|taxi|permit\s*only|loading/.test(text)
IsReserved(text) ==
    \/ Includes(text, <<"c","o","m","m","e","r","c","i","a","l">>)
    \/ Includes(text, <<"t","r","u","c","k">>)
    \/ Includes(text, <<"t","a","x","i">>)
    \/ Spaced(text, <<"p","e","r","m","i","t">>, <<"o","n","l","y">>)
    \/ Includes(text, <<"l","o","a","d","i","n","g">>)

\* only no-parking and tow-away texts are taken for regulations that forbid
\* parking
classifyRegulation_NoParkingOnly(props) ==
    LET text         == ToLowerCase(JsOr(props.regulation, Str(<<>>)).v)
        hasTimeLimit == ~Falsy(JsOr(props.hrlimit, props.hours))
    IN IF IsNoParking(text) THEN "CannotPark"
       ELSE IF \/ hasTimeLimit
               \/ Spaced(text, <<"t","i","m","e">>, <<"l","i","m","i","t">>)
               \/ HasDuration(text)
       THEN "TimeLimit"
       ELSE IF text = <<>> \/ Trim(text) = <<>> THEN "NoRegulation"
       ELSE "Unknown"

classifyRegulation(props) ==
    LET text         == ToLowerCase(JsOr(props.regulation, Str(<<>>)).v)
        hasTimeLimit == ~Falsy(JsOr(props.hrlimit, props.hours))
    IN IF IsNoParking(text) THEN "CannotPark"
       ELSE IF IsReserved(text) THEN "CannotPark"
       ELSE IF \/ hasTimeLimit
               \/ Spaced(text, <<"t","i","m","e">>, <<"l","i","m","i","t">>)
               \/ HasDuration(text)
       THEN "TimeLimit"
       ELSE IF text = <<>> \/ Trim(text) = <<>> THEN "NoRegulation"
       ELSE "Unknown"

Blue == "#2196F3"
Yellow == "#FFC107"
Red == "#d73027"
Grey == "#999999"
\* a Leaflet path style; opacity and dashArray are undefined when not given
Style(color, weight, opacity, dashArray) ==
    [color |-> color, weight |-> weight, opacity |-> opacity,
     dashArray |-> dashArray]
Solid(color) == Style(color, 3, Quotient(1, 1), Undefined)

\* the colour of a coverage in range mode (>= 1.0, > 0, else)
CoverageColor(coverage) ==
    IF coverage.num >= coverage.den THEN Blue
    ELSE IF coverage.num > 0 THEN Yellow
    ELSE Red

\* the style by classification, when no time is simulated
BaseStyle(cls) ==
    CASE cls = "CannotPark"   -> Style(Red, 4, Undefined, Undefined)
      [] cls = "TimeLimit"    -> Style(Yellow, 3, Undefined, Undefined)
      [] cls = "NoRegulation" -> Style(Blue, 3, Undefined, Undefined)
      [] OTHER                -> Style(Grey, 2, Undefined, Undefined)

\* feature.properties carries _isActive and _coverage beside the record
styleForFeature(feature, showInactiveDim, isRangeMode, isAtMode) ==
    LET props == feature.properties
        cls   == classifyRegulation(props)
    IN IF isRangeMode /\ props._coverage # Undefined
       THEN Solid(CoverageColor(props._coverage))
       ELSE IF isAtMode
       THEN IF ~props._isActive THEN Solid(Blue)
            ELSE IF cls = "CannotPark" THEN Solid(Red)
            ELSE Solid(Blue)
       ELSE IF showInactiveDim /\ ~props._isActive
       THEN [BaseStyle(cls) EXCEPT !.opacity = Quotient(3, 10),
                                   !.dashArray = Str(<<"5",","," ","5">>)]
       ELSE BaseStyle(cls)

\* const currentMode = filters.simulationEnabled ? filters.simulationMode : 'now'
CurrentMode(filters) ==
    IF filters.simulationEnabled THEN filters.simulationMode ELSE "now"

\* one element of featuresWithStatus: the record with _isActive and _coverage
featureWithStatus(props, filters) ==
    LET currentMode == CurrentMode(filters)
        isActive ==
            CASE currentMode = "now" -> TRUE
              [] currentMode = "at" -> isActiveAt(props, filters.atTime)
              [] currentMode = "range" ->
                    intersectsRange(props, filters.rangeStart, filters.rangeEnd)
        coverage ==
            IF currentMode = "range"
            THEN calculateCoverage(props, filters.rangeStart, filters.rangeEnd)
            ELSE Undefined
    IN [properties |->
           [days |-> props.days, hours |-> props.hours,
            regulation |-> props.regulation, hrlimit |-> props.hrlimit,
            _isActive |-> isActive, _coverage |-> coverage]]

\* filters.showInactiveDim ? featuresWithStatus
\*     : featuresWithStatus.filter(f => f.properties._isActive)
Kept(feature, filters) ==
    filters.showInactiveDim \/ feature.properties._isActive

\* what the GeoJSON layer draws of one feature of processedGeojson: nothing
\* when the filter dropped it, or a path in the style the style callback
\* returns
Layer(feature, filters, currentMode) ==
    IF Kept(feature, filters)
    THEN [shown |-> TRUE,
          style |-> styleForFeature(feature, filters.showInactiveDim,
                                    currentMode = "range", currentMode = "at")]
    ELSE [shown |-> FALSE]

\* what the map draws of one segment
Drawn(props, filters) ==
    Layer(featureWithStatus(props, filters), filters, CurrentMode(filters))

(***************************************************************************)
(* The map (SfParkingMap.jsx): debounced loading of the viewport           *)
(***************************************************************************)
\* useDebouncedCallback(cb, 300)
Delay == 300
\* the clock advances in steps of Step up to MaxClock; at most MaxMoves
\* moveend events happen; a response holds at most MaxFeatures features
Step == 100
MaxClock == 700
MaxMoves == 3
MaxFeatures == 1
\* the viewports the map is moved to
Viewports == {"A", "B"}

\* String(n) for n >= 0
RECURSIVE NumberText(_)
NumberText(n) ==
    IF n < 10 THEN <<Digits[n + 1]>>
    ELSE NumberText(n \div 10) \o <<Digits[(n % 10) + 1]>>

IdleText == Str(<<"I","d","l","e">>)
LoadingText == Str(<<"L","o","a","d","i","n","g",".",".",".">>)
ErrorText ==
    Str(<<"E","r","r","o","r"," ","l","o","a","d","i","n","g"," ","d","a","t","a">>)
\* the count of the status is always 0
LoadedText_Zero(n) == Str(<<"L","o","a","d","e","d"," ","(","0",")">>)
\* `Loaded (${data.features?.length || 0})`
LoadedText(n) ==
    Str(<<"L","o","a","d","e","d"," ","(">> \o NumberText(n) \o <<")">>)

\* the FeatureCollection that answers load l with n features
Response(l, n) == [of |-> l.id, bounds |-> l.bounds, features |-> n]

\* clearTimeout does nothing
ClearTimeout_Nothing(pending, id) == pending

\* if (timer.current) clearTimeout(timer.current): a timeout that has fired
\* or was cleared is no longer there
ClearTimeout(pending, id) ==
    IF id = Null THEN pending ELSE {t \in pending : t.id # id}

\* the state of the component after its first render
MapStart ==
    /\ clock = 0
    /\ timer = Null
    /\ timeouts = {}
    /\ loads = {}
    /\ geojson = Null
    /\ status = IdleText
    /\ moves = <<>>
    /\ fetches = <<>>
    /\ done = <<>>
    /\ concurrent = FALSE

(***************************************************************************)
(* The inputs of the calls. A generated string keeps how it was put        *)
(* together (`kind` and its components), so that a property can speak of   *)
(* the components without parsing the text a second time.                  *)
(***************************************************************************)
\* blanks on each side of the '-' of a generated hours string: 0..MaxPad
MaxPad == 1
\* parts of a generated days string: 1..MaxParts
MaxParts == 2

Blanks(n) == [i \in 1..n |-> " "]

\* ---- hours strings
DigitGroups ==
    {<<"9","0","0">>, <<"0","9","0","0">>, <<"1","8","0","0">>, <<"2","2","0","0">>,
     <<"6","0","0">>, <<"0","0","0","0">>, <<"2","5","0","0">>, <<"1","7","7","5">>}
HourTexts   == {<<"8">>, <<"1","2">>, <<"6">>, <<"0","9">>}
MinuteTexts == {<<>>, <<":","3","0">>, <<"1","5">>}
Meridiems   == {<<>>, <<"a","m">>, <<"p","m">>, <<"P","M">>}
Sides == [h : HourTexts, m : MinuteTexts, ap : Meridiems]
SideText(sd) == sd.h \o sd.m \o sd.ap
\* appended to a well-formed string to spoil it
Junk == {<<>>, <<"x">>, <<"-">>, <<" ","t","o"," ","6">>}

AllDaySpellings ==
    {<<"A","N","Y","T","I","M","E">>, <<"a","n","y","t","i","m","e">>,
     <<"A","n","y","T","i","m","e">>, <<"2","4"," ","H","R">>,
     <<"2","4"," ","h","r">>, <<"2","4"," ","H","r">>}
Around ==
    {<<>>, <<" ">>, <<"N","o"," ","p","a","r","k","i","n","g"," ">>,
     <<"0","9","0","0","-","1","8","0","0"," ">>, <<" ","8","a","m","-","6","p","m">>,
     <<"x">>}

\* strings that are neither all-day nor of one of the two formats
GarbageTexts ==
    {<<"g","a","r","b","a","g","e">>, <<" "," ">>, <<"\t">>, <<"9">>,
     <<"0","9","0","0">>, <<"8","a","m">>, <<"-">>, <<"0","9","0","0","-">>,
     <<"-","1","8","0","0">>, <<"0","9","0","0","1","-","1","8","0","0">>,
     <<"0","9","0","0","-","1","8","0","0","0">>,
     <<"0","9","-","1","8","-","2","0">>, <<"8",".","3","0","-","6">>,
     <<"8",":","3","-","6">>, <<"8","a","-","6","p">>, <<"2","4","h","r">>,
     <<"2","4"," "," ","H","R">>, <<"a","n","y"," ","t","i","m","e">>,
     <<"8","a","m"," ","t","o"," ","6","p","m">>, <<"n","o","o","n","-","6","p","m">>}

\* values that are not non-empty strings
NonStrings == {Undefined, Null, Str(<<>>), Num(0), Num(900), Bool(TRUE)}

HoursInputs ==
    {[kind |-> "hhmm", a |-> a, b |-> b, pad |-> n, junk |-> j] :
        a \in DigitGroups, b \in DigitGroups, n \in 0..MaxPad, j \in Junk}
    \cup {[kind |-> "flex", sa |-> a, sb |-> b, pad |-> n, junk |-> j] :
        a \in Sides, b \in Sides, n \in 0..MaxPad, j \in Junk}
    \cup {[kind |-> "allday", pre |-> x, word |-> w, post |-> y] :
        x \in Around, w \in AllDaySpellings, y \in Around}
    \cup {[kind |-> "garbage", text |-> x] : x \in GarbageTexts}
    \cup {[kind |-> "value", v |-> x] : x \in NonStrings}

HoursText(in) ==
    CASE in.kind = "hhmm" ->
           Str(in.a \o Blanks(in.pad) \o <<"-">> \o Blanks(in.pad) \o in.b \o in.junk)
      [] in.kind = "flex" ->
           Str(SideText(in.sa) \o Blanks(in.pad) \o <<"-">> \o Blanks(in.pad)
               \o SideText(in.sb) \o in.junk)
      [] in.kind = "allday" -> Str(in.pre \o in.word \o in.post)
      [] in.kind = "garbage" -> Str(in.text)
      [] in.kind = "value" -> in.v

\* ---- days strings
DayTexts ==
    {<<"S","U">>, <<"M","O">>, <<"M">>, <<"T","U">>, <<"W","E">>, <<"W">>,
     <<"T","H">>, <<"F","R">>, <<"F">>, <<"S","A">>,
     <<"s","a">>, <<"X","X">>, <<"S","U","N">>, <<>>}
\* START-END, by its two ends
RangeTexts ==
    {<<<<"M">>, <<"F">>>>, <<<<"t","u">>, <<"T","h">>>>, <<<<"F","R">>, <<"M","O">>>>,
     <<<<"S","A">>, <<"S","U">>>>, <<<<"S","U">>, <<"S","A">>>>, <<<<"W">>, <<"W">>>>,
     <<<<"M">>, <<"X","X">>>>, <<<<"X","X">>, <<"F">>>>, <<<<"M">>, <<>>>>,
     <<<<>>, <<>>>>}
\* a part with a second '-', by its three pieces
MultiTexts ==
    {<<<<"M">>, <<"F">>, <<"S","A">>>>, <<<<"T","H">>, <<"F">>, <<>>>>,
     <<<<"X","X">>, <<"F">>, <<"S","A">>>>, <<<<"M">>, <<"X","X">>, <<"F">>>>}
DayParts ==
    {[kind |-> "day", a |-> a] : a \in DayTexts}
    \cup {[kind |-> "range", a |-> r[1], b |-> r[2]] : r \in RangeTexts}
    \cup {[kind |-> "multi", a |-> r[1], b |-> r[2], c |-> r[3]] : r \in MultiTexts}
PartText(pt) ==
    CASE pt.kind = "day" -> pt.a
      [] pt.kind = "range" -> pt.a \o <<"-">> \o pt.b
      [] pt.kind = "multi" -> pt.a \o <<"-">> \o pt.b \o <<"-">> \o pt.c
Separators == {<<",">>, <<";"," ">>, <<" ">>}

PartSeqs == UNION {[1..n -> DayParts] : n \in 1..MaxParts}

DaysInputs ==
    {[kind |-> "parts", parts |-> ps, sep |-> sp, lead |-> ld] :
        ps \in PartSeqs, sp \in Separators, ld \in {<<>>, <<" ">>}}
    \cup {[kind |-> "value", v |-> x] : x \in NonStrings}

RECURSIVE Join(_, _)
Join(ps, sep) ==
    IF Len(ps) = 1 THEN PartText(ps[1])
    ELSE PartText(ps[1]) \o sep \o Join(Tail(ps), sep)

DaysText(in) ==
    CASE in.kind = "parts" -> Str(in.lead \o Join(in.parts, in.sep) \o in.lead)
      [] in.kind = "value" -> in.v

\* ---- records and instants for isActiveAt
DaysProps ==
    {Undefined, Null, Str(<<>>), Str(<<"M","-","F">>), Str(<<"S","A",",","S","U">>),
     Str(<<"S","U">>), Str(<<"F","R","-","M","O">>), Str(<<"X","X">>),
     Str(<<"M",","," ","T","H">>), Str(<<"S","U","-","S","A">>)}
HoursProps ==
    {Undefined, Str(<<>>), Str(<<"A","N","Y","T","I","M","E">>),
     Str(<<"2","4"," ","H","R">>), Str(<<"0","9","0","0","-","1","8","0","0">>),
     Str(<<"2","2","0","0","-","0","6","0","0">>),
     Str(<<"1","8","0","0","-","9","0","0">>),
     Str(<<"0","9","0","0","-","0","9","0","0">>),
     Str(<<"8","a","m","-","6","p","m">>), Str(<<"g","a","r","b","a","g","e">>)}
ProbeMinutes ==
    {0, 1, 359, 360, 361, 539, 540, 541, 600, 1079, 1080, 1081,
     1319, 1320, 1321, 1380, 1439}

\* ---- records and query intervals for intersectsRange
RecordDays ==
    {Undefined, Str(<<"M","-","F">>), Str(<<"S","A",",","S","U">>),
     Str(<<"M",","," ","T","H">>)}
RecordHours ==
    {Undefined, Str(<<"A","N","Y","T","I","M","E">>),
     Str(<<"0","9","0","0","-","1","8","0","0">>),
     Str(<<"2","2","0","0","-","0","6","0","0">>),
     Str(<<"0","9","0","0","-","0","9","0","0">>),
     Str(<<"8","a","m","-","6","p","m">>), Str(<<"g","a","r","b","a","g","e">>)}
\* Sunday, Monday and Saturday
QueryDays == {0, 1, 6}
\* the minutes of day of the two ends of a query, in either order
QueryMinutes == {0, 360, 480, 540, 600, 780, 1080, 1320, 1439}

\* ---- records for calculateCoverage: the regulation text and the hour limit
\* of a record go together, and a numeric hour limit is an integer other
\* than the one that stands for NaN
CoverageHours ==
    {Undefined, Str(<<"0","9","0","0","-","1","8","0","0">>),
     Str(<<"2","2","0","0","-","0","6","0","0">>),
     Str(<<"0","0","0","1","-","1","8","0","0">>),
     Str(<<"8","a","m","-","6","p","m">>), Str(<<"g","a","r","b","a","g","e">>)}
NoParkingText ==
    Str(<<"N","o"," ","p","a","r","k","i","n","g"," ","9","a","m","-","6","p","m">>)
TowAwayText == Str(<<"T","O","W","-","A","W","A","Y">>)
TowawayText == Str(<<"t","o","w","a","w","a","y"," ","z","o","n","e">>)
TimeLimitedText == Str(<<"T","i","m","e"," ","l","i","m","i","t","e","d">>)
Rule(r, l) == [regulation |-> r, hrlimit |-> l]
Rules ==
    {Rule(Undefined, l) :
        l \in {Undefined, Str(<<"2">>), Str(<<"0">>), Str(<<"a","b","c">>),
               Num(2), Num(0), Num(0 - 2)}}
    \cup {Rule(TimeLimitedText, Num(1)),
          Rule(NoParkingText, Undefined), Rule(NoParkingText, Str(<<"2">>)),
          Rule(NoParkingText, Num(0 - 2)),
          Rule(TowAwayText, Num(2)), Rule(TowawayText, Undefined)}
\* Monday and Saturday
CoverageDays == {1, 6}

\* ---- segments and filters for the map
SegmentDays == {Undefined, Str(<<"M","-","F">>)}
SegmentHours ==
    {Undefined, Str(<<"0","9","0","0","-","1","8","0","0">>),
     Str(<<"2","2","0","0","-","0","6","0","0">>),
     Str(<<"g","a","r","b","a","g","e">>)}
CommercialText ==
    Str(<<"C","o","m","m","e","r","c","i","a","l"," ","l","o","a","d","i","n","g">>)
PermitOnlyText == Str(<<"P","E","R","M","I","T"," "," ","O","N","L","Y">>)
TwoHourText == Str(<<"2"," ","H","R"," ","p","a","r","k","i","n","g">>)
StreetText == Str(<<"S","t","r","e","e","t"," ","c","l","e","a","n","i","n","g">>)
BlankText == Str(<<" ">>)
SegmentRules ==
    {Rule(Undefined, Undefined), Rule(Undefined, Str(<<"2">>)),
     Rule(Undefined, Num(0 - 2)), Rule(BlankText, Undefined),
     Rule(NoParkingText, Undefined), Rule(TowAwayText, Num(2)),
     Rule(CommercialText, Undefined), Rule(PermitOnlyText, Undefined),
     Rule(TimeLimitedText, Undefined), Rule(TwoHourText, Undefined),
     Rule(StreetText, Undefined)}
Segments ==
    {[days |-> d, hours |-> h, regulation |-> r.regulation, hrlimit |-> r.hrlimit] :
        d \in SegmentDays, h \in SegmentHours, r \in SegmentRules}
\* the instants the time controls are set to
FilterMinutes == {480, 540, 780, 1080, 1380}
FilterDate(day, m) == Date(day, m \div 60, m % 60)
\* the filters of the three modes; the times of a mode that is not shown stay
\* at Monday 09:00 and 10:00
Filters ==
    {[simulationEnabled |-> TRUE, simulationMode |-> "at",
      atTime |-> FilterDate(day, m), rangeStart |-> FilterDate(1, 540),
      rangeEnd |-> FilterDate(1, 600), showInactiveDim |-> dim] :
        day \in CoverageDays, m \in FilterMinutes, dim \in BOOLEAN}
    \cup
    {[simulationEnabled |-> TRUE, simulationMode |-> "range",
      atTime |-> FilterDate(1, 540), rangeStart |-> FilterDate(day, qs),
      rangeEnd |-> FilterDate(day, qe), showInactiveDim |-> dim] :
        day \in CoverageDays, qs \in FilterMinutes, qe \in FilterMinutes,
        dim \in BOOLEAN}
    \cup
    {[simulationEnabled |-> FALSE, simulationMode |-> mode,
      atTime |-> FilterDate(1, 540), rangeStart |-> FilterDate(1, 540),
      rangeEnd |-> FilterDate(1, 600), showInactiveDim |-> dim] :
        mode \in {"at", "range"}, dim \in BOOLEAN}

(***************************************************************************)
(* The state machine: one step is one call.                                *)
(***************************************************************************)
Idle == [fn |-> "none"]

Init ==
    /\ call = Idle
    /\ ret = Undefined
    /\ MapStart

CallParseDays ==
    /\ call = Idle
    /\ \E in \in DaysInputs :
        /\ call' = [fn |-> "parseDays", str |-> DaysText(in), input |-> in]
        /\ ret' = parseDays(DaysText(in))
    /\ UNCHANGED mapVars

CallParseTimeRange ==
    /\ call = Idle
    /\ \E in \in HoursInputs :
        /\ call' = [fn |-> "parseTimeRange", str |-> HoursText(in), input |-> in]
        /\ ret' = parseTimeRange(HoursText(in))
    /\ UNCHANGED mapVars

CallIsActiveAt ==
    /\ call = Idle
    /\ \E d \in DaysProps, h \in HoursProps, day \in 0..6, m \in ProbeMinutes :
        LET props == [days |-> d, hours |-> h]
            date  == Date(day, m \div 60, m % 60)
        IN /\ call' = [fn |-> "isActiveAt", props |-> props, date |-> date]
           /\ ret' = Bool(isActiveAt(props, date))
    /\ UNCHANGED mapVars

CallIntersectsRange ==
    /\ call = Idle
    /\ \E d \in RecordDays, h \in RecordHours, day \in QueryDays,
          qs \in QueryMinutes, qe \in QueryMinutes :
        LET props == [days |-> d, hours |-> h]
            start == Date(day, qs \div 60, qs % 60)
            end   == Date(day, qe \div 60, qe % 60)
        IN /\ call' = [fn |-> "intersectsRange", props |-> props,
                       start |-> start, end |-> end]
           /\ ret' = Bool(intersectsRange(props, start, end))
    /\ UNCHANGED mapVars

CallCalculateCoverage ==
    /\ call = Idle
    /\ \E d \in RecordDays, h \in CoverageHours, rule \in Rules,
          day \in CoverageDays, qs \in QueryMinutes, qe \in QueryMinutes :
        LET props == [days |-> d, hours |-> h,
                      regulation |-> rule.regulation, hrlimit |-> rule.hrlimit]
            start == Date(day, qs \div 60, qs % 60)
            end   == Date(day, qe \div 60, qe % 60)
        IN /\ call' = [fn |-> "calculateCoverage", props |-> props,
                       start |-> start, end |-> end]
           /\ ret' = calculateCoverage(props, start, end)
    /\ UNCHANGED mapVars

\* the map draws one segment of the loaded data under the current filters
DrawSegment ==
    /\ call = Idle
    /\ \E props \in Segments, filters \in Filters :
        /\ call' = [fn |-> "draw", props |-> props, filters |-> filters]
        /\ ret' = Drawn(props, filters)
    /\ UNCHANGED mapVars

\* the caller is done with the result; the library keeps nothing of a call
Return ==
    /\ call # Idle
    /\ call' = Idle
    /\ ret' = Undefined
    /\ UNCHANGED mapVars

Next ==
    \/ CallParseDays
    \/ CallParseTimeRange
    \/ CallIsActiveAt
    \/ CallIntersectsRange
    \/ CallCalculateCoverage
    \/ DrawSegment
    \/ Return

Spec == Init /\ [][Next]_vars

(***************************************************************************)
(* The state machine of the map: the viewport moves, time passes, a        *)
(* debounce timer fires and issues a load, a load is answered.             *)
(***************************************************************************)
\* moveend: onMove calls debouncedLoad({ bounds }), which clears the timeout
\* of timer.current and sets a new one
MoveEnd ==
    /\ Len(moves) < MaxMoves
    /\ \E b \in Viewports :
        LET id == Num(Len(moves) + 1)
        IN /\ timeouts' = ClearTimeout(timeouts, timer)
                             \cup {[id |-> id, due |-> clock + Delay, bounds |-> b]}
           /\ timer' = id
           /\ moves' = Append(moves, [at |-> clock, bounds |-> b])
    /\ UNCHANGED <<call, ret, clock, loads, geojson, status, fetches, done,
                   concurrent>>

\* time passes; a timeout that is due need not fire at once
Tick ==
    /\ clock + Step <= MaxClock
    /\ clock' = clock + Step
    /\ UNCHANGED <<call, ret, timer, timeouts, loads, geojson, status, moves,
                   fetches, done, concurrent>>

\* a timeout that is due fires: the callback sets the status and awaits
\* fetchGeojson; timer.current keeps the id of the timeout
TimerFires ==
    /\ \E t \in timeouts :
        /\ clock >= t.due
        /\ timeouts' = timeouts \ {t}
        /\ status' = LoadingText
        /\ loads' = loads \cup {[id |-> Len(fetches) + 1, bounds |-> t.bounds]}
        /\ fetches' = Append(fetches, [id |-> Len(fetches) + 1, at |-> clock,
                                       bounds |-> t.bounds, move |-> Len(moves)])
        /\ concurrent' = (concurrent \/ loads # {})
    /\ UNCHANGED <<call, ret, clock, timer, geojson, moves, done>>

\* res.ok and res.json() gives a FeatureCollection: setGeojson, setStatus
LoadSucceeds ==
    /\ \E l \in loads, n \in 0..MaxFeatures :
        /\ loads' = loads \ {l}
        /\ geojson' = Response(l, n)
        /\ status' = LoadedText(n)
        /\ done' = Append(done, [id |-> l.id, kind |-> "ok", features |-> n])
    /\ UNCHANGED <<call, ret, clock, timer, timeouts, moves, fetches, concurrent>>

\* fetch rejects (network), or !res.ok and fetchGeojson throws (status), or
\* res.json() rejects (json): the catch block sets the status
LoadFails ==
    /\ \E l \in loads, kind \in {"network", "status", "json"} :
        /\ loads' = loads \ {l}
        /\ status' = ErrorText
        /\ done' = Append(done, [id |-> l.id, kind |-> kind, features |-> 0])
    /\ UNCHANGED <<call, ret, clock, timer, timeouts, geojson, moves, fetches,
                   concurrent>>

\* res.ok and the body is the JSON text null: setGeojson(null), then
\* data.features throws a TypeError and the catch block sets the status
LoadGivesNull ==
    /\ \E l \in loads :
        /\ loads' = loads \ {l}
        /\ geojson' = Null
        /\ status' = ErrorText
        /\ done' = Append(done, [id |-> l.id, kind |-> "null", features |-> 0])
    /\ UNCHANGED <<call, ret, clock, timer, timeouts, moves, fetches, concurrent>>

MapNext ==
    \/ MoveEnd
    \/ Tick
    \/ TimerFires
    \/ LoadSucceeds
    \/ LoadFails
    \/ LoadGivesNull

MapSpec == Init /\ [][MapNext]_vars

(***************************************************************************)
(* Properties of parseTimeRange                                            *)
(***************************************************************************)
\* the value of a string of decimal digits
RECURSIVE Decimal(_)
Decimal(ds) ==
    IF ds = <<>> THEN 0
    ELSE 10 * Decimal(SubSeq(ds, 1, Len(ds) - 1)) + DigitVal(ds[Len(ds)])

InParseTimeRange == call.fn = "parseTimeRange"

\* a generated side, as the specification reads it: its hour after the
\* meridiem conversion, and its minutes (0 when there are none)
SideHasMeridiem(sd) == sd.ap # <<>>
SideIsPm(sd) == ToLowerCase(sd.ap) = <<"p","m">>
SideIsAm(sd) == ToLowerCase(sd.ap) = <<"a","m">>
SideHour(sd) ==
    LET h == Decimal(sd.h)
    IN IF SideIsPm(sd) /\ h # 12 THEN h + 12
       ELSE IF SideIsAm(sd) /\ h = 12 THEN 0
       ELSE h
SideMinute(sd) ==
    IF sd.m = <<>> THEN 0 ELSE Decimal(SubSeq(sd.m, Len(sd.m) - 1, Len(sd.m)))
SideIsDigitGroup(sd) == sd.ap = <<>> /\ sd.m # <<>> /\ Head(sd.m) # ":"

\* the input is H[:MM][am|pm]-H[:MM][am|pm], blanks aside, and not two groups
\* of 3 or 4 digits
IsFlexInput(in) ==
    /\ in.kind = "flex" /\ in.junk = <<>>
    /\ ~(SideIsDigitGroup(in.sa) /\ SideIsDigitGroup(in.sb))

\* the input is two groups of 3 or 4 digits joined by '-', blanks aside
IsGroupInput(in) ==
    \/ in.kind = "hhmm" /\ in.junk = <<>>
    \/ /\ in.kind = "flex" /\ in.junk = <<>>
       /\ SideIsDigitGroup(in.sa) /\ SideIsDigitGroup(in.sb)
GroupA(in) == IF in.kind = "hhmm" THEN in.a ELSE in.sa.h \o in.sa.m
GroupB(in) == IF in.kind = "hhmm" THEN in.b ELSE in.sb.h \o in.sb.m
\* HHMM read as a number: HH * 60 + MM
GroupMinutes(g) == ((Decimal(g) \div 100) * 60) + (Decimal(g) % 100)

\* C1: parseTimeRange of a string of the form H[:MM][am|pm]-H[:MM][am|pm] that
\* is not two groups of 3 or 4 digits returns the window whose two ends are
\* hour * 60 + minutes of each side after the meridiem conversion (pm adds 12
\* unless the hour is 12, 12am is 0, no minutes is 0); "8am-6pm" gives
\* (480, 1080). Stated for the strings in which both sides carry am or pm.
C1_FlexWindow ==
    InParseTimeRange /\ IsFlexInput(call.input)
        /\ SideHasMeridiem(call.input.sa) /\ SideHasMeridiem(call.input.sb)
    => ret = Window(SideHour(call.input.sa) * 60 + SideMinute(call.input.sa),
                    SideHour(call.input.sb) * 60 + SideMinute(call.input.sb))

\* C2: parseTimeRange of a string that is, blanks removed, two groups of 3 or 4
\* digits joined by '-' returns (HH1*60+MM1, HH2*60+MM2), each group read as
\* HHMM after padding it with zeros on the left, with no am/pm handling.
C2_DigitGroups ==
    InParseTimeRange /\ IsGroupInput(call.input)
    => ret = Window(GroupMinutes(GroupA(call.input)), GroupMinutes(GroupB(call.input)))

\* "900 - 1800", a group of three digits and blanks around the '-', gave (540, 1080)
C2_Witness ==
    /\ InParseTimeRange
    /\ call.str = Str(<<"9","0","0"," ","-"," ","1","8","0","0">>)
    /\ ret = Window(540, 1080)

\* C3: parseTimeRange returns the all-day window (0, 1440) whenever its input is
\* absent, empty, not a string, or contains "anytime" or "24 hr" in any case,
\* whatever else the string holds.
C3_AllDay ==
    InParseTimeRange /\ call.input.kind \in {"allday", "value"}
    => ret = Window(0, 1440)

\* "0900-1800 24 Hr", which also holds a well-formed range, gave the all-day window
C3_Witness ==
    /\ InParseTimeRange
    /\ call.str = Str(<<"0","9","0","0","-","1","8","0","0"," ","2","4"," ","H","r">>)
    /\ ret = Window(0, 1440)

\* the input is a non-empty string of neither format that holds neither
\* "anytime" nor "24 hr"
IsGarbageInput(in) ==
    \/ in.kind = "garbage"
    \/ in.kind \in {"hhmm", "flex"} /\ in.junk # <<>>

\* C4, as claimed: parseTimeRange returns null, and no window, for every
\* non-empty string that matches neither of the two formats.
C4_Original ==
    InParseTimeRange /\ (IsGarbageInput(call.input) \/ call.input.kind = "allday")
    => ret = Null

\* C4, amended: parseTimeRange returns null, and no window, for every non-empty
\* string that holds neither "anytime" nor "24 hr" (in any case) and matches
\* neither of the two formats.
C4_Unparseable ==
    InParseTimeRange /\ IsGarbageInput(call.input) => ret = Null

\* "8am-6pm" followed by " to 6" gave null
C4_Witness ==
    /\ InParseTimeRange
    /\ call.str = Str(<<"8","a","m","-","6","p","m"," ","t","o"," ","6">>)
    /\ ret = Null

\* C5: both ends of every window parseTimeRange returns are integers in
\* [0, 1440). Stated for the windows that come from one of the two formats: the
\* all-day window (0, 1440) of the data model is set aside.
C5_WindowInRange ==
    InParseTimeRange /\ call.input.kind \in {"hhmm", "flex"} /\ ret # Null
    => ret.startMin \in 0..1439 /\ ret.endMin \in 0..1439

(***************************************************************************)
(* Properties of parseDays                                                 *)
(***************************************************************************)
InParseDays == call.fn = "parseDays"

\* the index of a recognised abbreviation, in either case; -1 for any other text
DayIndex(a) ==
    LET u == ToUpperCase(a)
    IN CASE u = <<"S","U">> -> 0
         [] u \in {<<"M","O">>, <<"M">>} -> 1
         [] u = <<"T","U">> -> 2
         [] u \in {<<"W","E">>, <<"W">>} -> 3
         [] u = <<"T","H">> -> 4
         [] u \in {<<"F","R">>, <<"F">>} -> 5
         [] u = <<"S","A">> -> 6
         [] OTHER -> 0 - 1
Recognised(a) == DayIndex(a) >= 0
RangeDays(a, b) ==
    IF Recognised(a) /\ Recognised(b)
    THEN {i \in 0..6 : DayIndex(a) <= i /\ i <= DayIndex(b)} ELSE {}

\* what a part contributes as claimed: an abbreviation its index, START-END
\* the indices from start to end, any other part nothing
ClaimedDays(pt) ==
    CASE pt.kind = "day" -> IF Recognised(pt.a) THEN {DayIndex(pt.a)} ELSE {}
      [] pt.kind = "range" -> RangeDays(pt.a, pt.b)
      [] pt.kind = "multi" -> {}
\* what a part contributes as amended: a part with more than one '-' is read
\* as START-END from its first two pieces
AmendedDays(pt) ==
    CASE pt.kind = "day" -> IF Recognised(pt.a) THEN {DayIndex(pt.a)} ELSE {}
      [] pt.kind = "range" -> RangeDays(pt.a, pt.b)
      [] pt.kind = "multi" -> RangeDays(pt.a, pt.b)
ClaimedUnion(ps) == UNION {ClaimedDays(ps[i]) : i \in 1..Len(ps)}
AmendedUnion(ps) == UNION {AmendedDays(ps[i]) : i \in 1..Len(ps)}
\* the set, or null for the empty set (C7)
AsResult(S) == IF S = {} THEN Null ELSE SetOf(S)

\* C6, as claimed: parseDays splits on commas, semicolons and blanks and returns
\* exactly the union over the parts of: the index of a recognised abbreviation,
\* or, for START-END with both ends recognised, every index from start to end;
\* any other part contributes nothing.
C6_Original ==
    InParseDays /\ call.input.kind = "parts"
    => ret = AsResult(ClaimedUnion(call.input.parts))

\* C6, amended: as claimed, except that a part holding more than one '-' is
\* read as START-END from its first two '-'-separated pieces, whatever follows
\* the second '-' being ignored ("M-F-SA" contributes 1..5); abbreviations are
\* matched in either case, and the result is null when the union is empty.
C6_UnionOfParts ==
    InParseDays /\ call.input.kind = "parts"
    => ret = AsResult(AmendedUnion(call.input.parts))

\* " M-F; sa ", a range and an abbreviation in lower case, gave {1, .., 6}
C6_Witness ==
    /\ InParseDays
    /\ call.str = Str(<<" ","M","-","F",";"," ","s","a"," ">>)
    /\ ret = SetOf(1..6)

\* C7: parseDays never returns an empty set: its result is null for an input
\* that is empty, absent or not a string and for a string in which no part
\* yields a day, and every other result is a non-empty set of indices in 0..6.
C7_NeverEmpty ==
    InParseDays
    => /\ ret = Null \/ (ret.t = "Set" /\ ret.v # {} /\ ret.v \subseteq 0..6)
       /\ call.input.kind = "value" => ret = Null
       /\ call.input.kind = "parts" /\ AmendedUnion(call.input.parts) = {}
            => ret = Null

\* "FR-MO,XX", a range that runs backwards and an unknown abbreviation, gave null
C7_Witness ==
    /\ InParseDays
    /\ call.str = Str(<<"F","R","-","M","O",",","X","X">>)
    /\ ret = Null

(***************************************************************************)
(* Properties of isActiveAt                                                *)
(***************************************************************************)
InIsActiveAt == call.fn = "isActiveAt"
NowMinutes == call.date.hours * 60 + call.date.minutes
ActiveDays == parseDays(call.props.days)
TimeRange == parseTimeRange(call.props.hours)
\* the weekday before d
DayBefore(d) == IF d = 0 THEN 6 ELSE d - 1

\* C8: for a record whose days are Unrestricted and whose hours are all-day
\* (absent, empty, ANYTIME or 24 HR), isActiveAt is true at every instant.
C8_AlwaysActive ==
    InIsActiveAt /\ ActiveDays = Null /\ TimeRange = Window(0, 1440)
    => ret = Bool(TRUE)

\* days "XX" and hours "24 HR" at the first minute of a Sunday
C8_Witness ==
    /\ InIsActiveAt
    /\ call.props = [days |-> Str(<<"X","X">>), hours |-> Str(<<"2","4"," ","H","R">>)]
    /\ call.date = Date(0, 0, 0)
    /\ ret = Bool(TRUE)

\* C9: for a record with a day set and an overnight window (end <= start),
\* isActiveAt at weekday d and minute m is true iff (the weekday before d is in
\* the set and m < end) or (d is in the set and m >= start).
C9_Overnight ==
    InIsActiveAt /\ ActiveDays # Null /\ TimeRange # Null
        /\ JsLe(TimeRange.endMin, TimeRange.startMin)
    => ret = Bool(\/ DayBefore(call.date.day) \in ActiveDays.v
                     /\ NowMinutes < TimeRange.endMin
                  \/ call.date.day \in ActiveDays.v
                     /\ NowMinutes >= TimeRange.startMin)

\* days "M-F", hours "2200-0600": active at 05:59 on a Saturday, which is not
\* in the set, from Friday's rule
C9_Witness ==
    /\ InIsActiveAt
    /\ call.props = [days |-> Str(<<"M","-","F">>),
                     hours |-> Str(<<"2","2","0","0","-","0","6","0","0">>)]
    /\ call.date = Date(6, 5, 59)
    /\ ret = Bool(TRUE)

\* C10: for a record with Unrestricted days and a window (start, end),
\* isActiveAt at minute m is true iff start <= m < end when end > start, and
\* iff m >= start or m < end when end <= start, on every weekday; for
\* (1320, 360) it is true at minutes 0 and 1380 and false at minute 600.
C10_TimeOnly ==
    InIsActiveAt /\ ActiveDays = Null /\ TimeRange # Null
    => /\ JsLt(TimeRange.startMin, TimeRange.endMin)
            => ret = Bool(TimeRange.startMin <= NowMinutes
                          /\ NowMinutes < TimeRange.endMin)
       /\ JsLe(TimeRange.endMin, TimeRange.startMin)
            => ret = Bool(NowMinutes >= TimeRange.startMin
                          \/ NowMinutes < TimeRange.endMin)
       /\ TimeRange = Window(1320, 360)
            => /\ NowMinutes \in {0, 1380} => ret = Bool(TRUE)
               /\ NowMinutes = 600 => ret = Bool(FALSE)

\* no days, hours "2200-0600": active at 00:00 on a Wednesday
C10_Witness ==
    /\ InIsActiveAt
    /\ call.props = [days |-> Undefined,
                     hours |-> Str(<<"2","2","0","0","-","0","6","0","0">>)]
    /\ call.date = Date(3, 0, 0)
    /\ ret = Bool(TRUE)

\* C11: for a record with a non-empty day set and a same-day window
\* (end > start), isActiveAt at weekday d and minute m is true iff d is in the
\* day set and start <= m < end.
C11_SameDay ==
    InIsActiveAt /\ ActiveDays # Null /\ TimeRange # Null
        /\ JsLt(TimeRange.startMin, TimeRange.endMin)
    => ret = Bool(/\ call.date.day \in ActiveDays.v
                  /\ TimeRange.startMin <= NowMinutes
                  /\ NowMinutes < TimeRange.endMin)

\* days "M-F", hours "0900-1800": no longer active at 18:00 on a Monday
C11_Witness ==
    /\ InIsActiveAt
    /\ call.props = [days |-> Str(<<"M","-","F">>),
                     hours |-> Str(<<"0","9","0","0","-","1","8","0","0">>)]
    /\ call.date = Date(1, 18, 0)
    /\ ret = Bool(FALSE)

(***************************************************************************)
(* Properties of intersectsRange                                           *)
(***************************************************************************)
InIntersectsRange == call.fn = "intersectsRange"
\* the weekday of the query start and the minutes of day of its two ends
QueryDay == call.start.day
QStart == (call.start.hours * 60) + call.start.minutes
QEnd == (call.end.hours * 60) + call.end.minutes
\* the days of the record apply to the query: Unrestricted, or the weekday of
\* the query start is in the set
DaysApply == ActiveDays = Null \/ QueryDay \in ActiveDays.v

\* C12: intersectsRange returns false whenever the record has a day set that
\* does not contain the weekday of the query start, for every hours value and
\* every query interval, also when an overnight window's previous-day portion
\* is active during the query according to isActiveAt.
C12_DayExcluded ==
    InIntersectsRange /\ ActiveDays # Null /\ QueryDay \notin ActiveDays.v
    => ret = Bool(FALSE)

\* days "M-F", hours "2200-0600", Saturday 00:00-06:00: isActiveAt holds at the
\* query start, from Friday's rule, and the interval does not intersect
C12_Witness ==
    /\ InIntersectsRange
    /\ call.props = [days |-> Str(<<"M","-","F">>),
                     hours |-> Str(<<"2","2","0","0","-","0","6","0","0">>)]
    /\ call.start = Date(6, 0, 0)
    /\ call.end = Date(6, 6, 0)
    /\ isActiveAt(call.props, call.start)
    /\ ret = Bool(FALSE)

\* C13 as stated: for every record whose hours are time-unrestricted
\* (Unparseable, or all-day (0, 1440)) and whose day set is Unrestricted or
\* contains the query weekday, intersectsRange returns true for every query
\* interval.
C13_Original ==
    InIntersectsRange /\ DaysApply
        /\ (TimeRange = Null \/ TimeRange = Window(0, 1440))
    => ret = Bool(TRUE)

\* C13, amended: for such a record intersectsRange returns true for every
\* query interval when the hours are Unparseable, and when they are all-day
\* it returns true exactly for the intervals whose end minute of day is after
\* their start minute of day.
C13_TimeUnrestricted ==
    InIntersectsRange /\ DaysApply
    => /\ TimeRange = Null => ret = Bool(TRUE)
       /\ TimeRange = Window(0, 1440) => ret = Bool(QStart < QEnd)

\* days "M-F", hours "ANYTIME", Monday 08:00-10:00
C13_Witness ==
    /\ InIntersectsRange
    /\ call.props = [days |-> Str(<<"M","-","F">>),
                     hours |-> Str(<<"A","N","Y","T","I","M","E">>)]
    /\ call.start = Date(1, 8, 0)
    /\ call.end = Date(1, 10, 0)
    /\ ret = Bool(TRUE)

\* the half-open intervals [a, b) and [c, d) have a minute in common
RangesMeet(a, b, c, d) == a < b /\ c < d /\ a < d /\ c < b

\* C14: when the days apply and the hours parse to a window (s, e),
\* intersectsRange is true iff [qs, qe) and [s, e) have a minute in common for
\* a same-day window, and iff [qs, qe) meets [s, 1440) or [0, e) for an
\* overnight window (e <= s); a query that only touches a boundary of the
\* window (qe = s or qs = e) does not intersect.
C14_HalfOpenOverlap ==
    InIntersectsRange /\ DaysApply /\ TimeRange # Null
    => LET s == TimeRange.startMin
           e == TimeRange.endMin
       IN /\ JsLt(s, e)
               => /\ ret = Bool(RangesMeet(s, e, QStart, QEnd))
                  /\ QEnd = s \/ QStart = e => ret = Bool(FALSE)
          /\ JsLe(e, s)
               => /\ ret = Bool(\/ RangesMeet(s, 1440, QStart, QEnd)
                                \/ RangesMeet(0, e, QStart, QEnd))
                  /\ \/ QEnd = s /\ QStart >= e
                     \/ QStart = e /\ QEnd <= s
                     => ret = Bool(FALSE)

\* no days, hours "0900-1800", query 08:00-09:00: it ends where the window
\* starts
C14_Witness ==
    /\ InIntersectsRange
    /\ call.props = [days |-> Undefined,
                     hours |-> Str(<<"0","9","0","0","-","1","8","0","0">>)]
    /\ call.start = Date(1, 8, 0)
    /\ call.end = Date(1, 9, 0)
    /\ ret = Bool(FALSE)

(***************************************************************************)
(* Properties of calculateCoverage                                         *)
(***************************************************************************)
InCalculateCoverage == call.fn = "calculateCoverage"
\* D: the length of the query in minutes of day
Duration == QEnd - QStart
\* the window of the record is known: Unparseable, or two numbers
WindowKnown ==
    TimeRange = Null \/ (TimeRange.startMin # NaN /\ TimeRange.endMin # NaN)
\* the minutes of a day that fall under the window w of a record
Regulated(w) ==
    IF w = Null THEN 0..1439
    ELSE IF w.startMin < w.endMin THEN w.startMin..(w.endMin - 1)
    ELSE (w.startMin..1439) \cup (0..(w.endMin - 1))
\* O: the number of minutes of the query that fall under the time rule
RegulatedMinutes ==
    Cardinality((QStart..(QEnd - 1)) \cap Regulated(TimeRange))
Zero == Quotient(0, 1)
One == Quotient(1, 1)

\* C15 as stated: for every record and every pair of query instants, if
\* intersectsRange is false then calculateCoverage returns 1.0.
C15_Original ==
    InCalculateCoverage /\ ~intersectsRange(call.props, call.start, call.end)
    => ret = One

\* C15, amended: for every record and every query whose end minute of day is
\* after its start minute of day, if intersectsRange is false then
\* calculateCoverage returns 1.0.
C15_NoIntersectionIsFree ==
    InCalculateCoverage /\ QStart < QEnd
        /\ ~intersectsRange(call.props, call.start, call.end)
    => ret = One

\* days "M-F", hours "0900-1800", no parking, Monday 06:00-09:00: the query
\* ends where the window starts
C15_Witness ==
    /\ InCalculateCoverage
    /\ call.props = [days |-> Str(<<"M","-","F">>),
                     hours |-> Str(<<"0","9","0","0","-","1","8","0","0">>),
                     regulation |-> NoParkingText, hrlimit |-> Undefined]
    /\ call.start = Date(1, 6, 0)
    /\ call.end = Date(1, 9, 0)
    /\ ~intersectsRange(call.props, call.start, call.end)
    /\ ret = One

\* C16: calculateCoverage returns a number between 0 and 1, both included,
\* for every record and every query interval.
C16_InUnitInterval ==
    InCalculateCoverage => 0 <= ret.num /\ ret.num <= ret.den

\* C17: calculateCoverage returns 0 whenever the end minute of day of the
\* query is not after its start minute of day, for every record, also one
\* whose day set excludes the weekday of the query.
C17_NoDuration ==
    InCalculateCoverage /\ QEnd <= QStart => ret = Zero

\* days "SA,SU", a Monday, 10:00-08:00
C17_Witness ==
    /\ InCalculateCoverage
    /\ call.props.days = Str(<<"S","A",",","S","U">>)
    /\ call.start = Date(1, 10, 0)
    /\ call.end = Date(1, 8, 0)
    /\ ret = Zero

\* C18: for a query with end after start, calculateCoverage returns 1.0
\* whenever the day set of the record is non-empty and does not contain the
\* weekday of the query start, whatever its hours, regulation and hrlimit.
C18_OtherDay ==
    InCalculateCoverage /\ QStart < QEnd
        /\ ActiveDays # Null /\ QueryDay \notin ActiveDays.v
    => ret = One

\* days "M-F", no hours, no parking, Saturday 08:00-10:00
C18_Witness ==
    /\ InCalculateCoverage
    /\ call.props = [days |-> Str(<<"M","-","F">>), hours |-> Undefined,
                     regulation |-> NoParkingText, hrlimit |-> Undefined]
    /\ call.start = Date(6, 8, 0)
    /\ call.end = Date(6, 10, 0)
    /\ ret = One

\* the regulation text of the record names no parking or a tow-away zone
NoParkingRecord ==
    call.props.regulation \in {NoParkingText, TowAwayText, TowawayText}

\* C19: for a no-parking or tow-away record whose days apply, a query of
\* D > 0 minutes of which O > 0 fall into the regulation window gets the
\* coverage (D - O) / D, whatever the hrlimit; for days "M-F", hours
\* "0900-1800", regulation "No parking 9am-6pm" and a Monday 08:00-10:00 query,
\* O is 60 and the coverage is 0.5.
C19_NoParking ==
    InCalculateCoverage /\ NoParkingRecord /\ DaysApply /\ WindowKnown
        /\ Duration > 0
    => LET O == RegulatedMinutes
       IN O > 0
          => /\ ret = Quotient(Duration - O, Duration)
             /\ /\ call.props.days = Str(<<"M","-","F">>)
                /\ call.props.hours = Str(<<"0","9","0","0","-","1","8","0","0">>)
                /\ call.props.regulation = NoParkingText
                /\ call.start = Date(1, 8, 0)
                /\ call.end = Date(1, 10, 0)
                => O = 60 /\ ret = Quotient(1, 2)

\* the record and the query that the claim names, with an hrlimit of "2"
C19_Witness ==
    /\ InCalculateCoverage
    /\ call.props = [days |-> Str(<<"M","-","F">>),
                     hours |-> Str(<<"0","9","0","0","-","1","8","0","0">>),
                     regulation |-> NoParkingText, hrlimit |-> Str(<<"2">>)]
    /\ call.start = Date(1, 8, 0)
    /\ call.end = Date(1, 10, 0)
    /\ ret = Quotient(1, 2)

\* the record has an hour limit: an hrlimit that is a number other than 0, or
\* a string of digits
HasHourLimit ==
    \/ call.props.hrlimit.t = "number" /\ call.props.hrlimit.v # 0
    \/ call.props.hrlimit.t = "string" /\ call.props.hrlimit.v # <<>>
       /\ AllDigits(call.props.hrlimit.v)
\* L: its hours
HourLimit ==
    IF call.props.hrlimit.t = "number" THEN call.props.hrlimit.v
    ELSE Decimal(call.props.hrlimit.v)
\* the smaller of two integers
Smaller(a, b) == IF a <= b THEN a ELSE b

\* C20: for a record that is not no-parking and has an hour limit of L hours,
\* whose days apply, a query of D > 0 minutes of which O > 0 fall into the
\* regulation window gets the coverage min(1, (D - O + min(60 * L, O)) / D);
\* for days "M-F", hours "0900-1800", hrlimit "2" and a Monday 09:00-13:00
\* query the coverage is 0.5.
C20_HourLimit ==
    InCalculateCoverage /\ ~NoParkingRecord /\ HasHourLimit /\ DaysApply
        /\ WindowKnown /\ Duration > 0
    => LET O    == RegulatedMinutes
           free == Duration - O + Smaller(60 * HourLimit, O)
       IN O > 0
          => /\ ret = IF free >= Duration THEN One ELSE Quotient(free, Duration)
             /\ /\ call.props.days = Str(<<"M","-","F">>)
                /\ call.props.hours = Str(<<"0","9","0","0","-","1","8","0","0">>)
                /\ call.props.hrlimit = Str(<<"2">>)
                /\ call.start = Date(1, 9, 0)
                /\ call.end = Date(1, 13, 0)
                => ret = Quotient(1, 2)

\* the record and the query that the claim names
C20_Witness ==
    /\ InCalculateCoverage
    /\ call.props = [days |-> Str(<<"M","-","F">>),
                     hours |-> Str(<<"0","9","0","0","-","1","8","0","0">>),
                     regulation |-> Undefined, hrlimit |-> Str(<<"2">>)]
    /\ call.start = Date(1, 9, 0)
    /\ call.end = Date(1, 13, 0)
    /\ ret = Quotient(1, 2)

(***************************************************************************)
(* Ranges over the end of the week                                        *)
(***************************************************************************)
\* a range START-END of two recognised abbreviations whose start comes after
\* its end in the week
Backward(pt) ==
    pt.kind = "range" /\ Recognised(pt.a) /\ Recognised(pt.b)
        /\ DayIndex(pt.a) > DayIndex(pt.b)
\* the days of the parts other than the backward ranges
ForwardUnion(ps) ==
    UNION {AmendedDays(ps[i]) : i \in {j \in 1..Len(ps) : ~Backward(ps[j])}}

\* C25: a hyphenated range whose start index is greater than its end index
\* ("FR-MO") contributes no days to the result of parseDays; when it is the
\* only token the result is Unrestricted, and the record applies every day.
C25_BackwardRange ==
    /\ InParseDays /\ call.input.kind = "parts"
       => /\ ret = AsResult(ForwardUnion(call.input.parts))
          /\ Len(call.input.parts) = 1 /\ Backward(call.input.parts[1])
               => ret = Null
    /\ InIsActiveAt /\ call.props.days = Str(<<"F","R","-","M","O">>)
            /\ TimeRange = Window(0, 1440)
       => ret = Bool(TRUE)

\* "FR-MO,W": the range adds nothing to Wednesday
C25_Witness ==
    /\ InParseDays
    /\ call.str = Str(<<"F","R","-","M","O",",","W">>)
    /\ ret = SetOf({3})

(***************************************************************************)
(* Records without an hour limit                                           *)
(***************************************************************************)
\* the hrlimit of the record is missing, or a text without a number
NoHourLimit ==
    \/ call.props.hrlimit = Undefined
    \/ call.props.hrlimit.t = "string"
       /\ \A i \in 1..Len(call.props.hrlimit.v) : ~IsDigit(call.props.hrlimit.v[i])

\* C21: for a record that is not no-parking and whose hrlimit is missing or
\* non-numeric, calculateCoverage takes the limit to be absent: a query of
\* D > 0 minutes of which O > 0 fall into the regulation window gets
\* (D - O) / D.
C21_NoLimit ==
    InCalculateCoverage /\ ~NoParkingRecord /\ NoHourLimit /\ DaysApply
        /\ WindowKnown /\ Duration > 0
    => LET O == RegulatedMinutes
       IN O > 0 => ret = Quotient(Duration - O, Duration)

\* the hours are two groups of digits around a '-'
HoursAreGroups ==
    /\ call.props.hours.t = "string"
    /\ LET pieces == SplitDash(call.props.hours.v)
       IN /\ Len(pieces) = 2
          /\ \A i \in 1..2 : pieces[i] # <<>> /\ AllDigits(pieces[i])
\* the first group of the hours, read as an integer
FirstGroup == Decimal(SplitDash(call.props.hours.v)[1])

\* C26: when a record is not no-parking and has no hrlimit, calculateCoverage
\* takes the first integer of the hours as the limit in hours; for hours
\* HHMM-HHMM whose first group is at least 24 as an integer ("0900-1800" gives
\* 900 hours) the result is 1.0 for every query of positive duration, whatever
\* its overlap with the regulation window.
C26_HoursAsLimit ==
    InCalculateCoverage /\ ~NoParkingRecord /\ call.props.hrlimit = Undefined
        /\ HoursAreGroups /\ Duration > 0
    => /\ FirstGroup >= 24 => ret = One
       /\ DaysApply
          => LET O    == RegulatedMinutes
                 free == Duration - O + Smaller(60 * FirstGroup, O)
             IN O > 0
                => ret = IF free >= Duration THEN One
                         ELSE Quotient(free, Duration)

\* days "M-F", hours "0900-1800", no hrlimit, Monday 09:00-13:00: every minute
\* of the query is in the window
C26_Witness ==
    /\ InCalculateCoverage
    /\ call.props = [days |-> Str(<<"M","-","F">>),
                     hours |-> Str(<<"0","9","0","0","-","1","8","0","0">>),
                     regulation |-> Undefined, hrlimit |-> Undefined]
    /\ call.start = Date(1, 9, 0)
    /\ call.end = Date(1, 13, 0)
    /\ RegulatedMinutes = Duration
    /\ ret = One

(***************************************************************************)
(* Coverage of a no-parking record against isActiveAt, and under widening  *)
(***************************************************************************)
\* the minutes of [a, b) among the regulated minutes rm of the day
CountIn(rm, a, b) == Cardinality((a..(b - 1)) \cap rm)
\* the regulated minutes of the day of the call: none when the days of the
\* record do not apply
RegulatedToday == IF DaysApply THEN Regulated(TimeRange) ELSE {}
\* calculateCoverage of the record of the call for the query [a, b) on the
\* same day
CoverageOf(a, b) ==
    calculateCoverage(call.props, Date(QueryDay, a \div 60, a % 60),
                      Date(QueryDay, b \div 60, b % 60))
\* x <= y for two quotients
AtMost(x, y) == x.num * y.den <= y.num * x.den
\* [a, b) contains the query of the call
Wider(a, b) == a <= QStart /\ QEnd <= b

\* C22 as stated: for a no-parking record, if a query is widened on the same
\* day so that it includes strictly more regulated minutes, the coverage of
\* the wider query is never greater than that of the original one.
C22_Original ==
    InCalculateCoverage /\ NoParkingRecord /\ WindowKnown /\ QStart < QEnd
    => LET rm == RegulatedToday
       IN \A a \in QueryMinutes, b \in QueryMinutes :
             Wider(a, b) /\ CountIn(rm, a, b) > CountIn(rm, QStart, QEnd)
             => AtMost(CoverageOf(a, b), ret)

\* C22, amended: for a no-parking record, if a query is widened on the same
\* day by regulated minutes only (every added minute is regulated, and at
\* least one is added), the coverage of the wider query is never greater than
\* that of the original one.
C22_WidenedByRegulated ==
    InCalculateCoverage /\ NoParkingRecord /\ WindowKnown /\ QStart < QEnd
    => LET rm == RegulatedToday
       IN \A a \in QueryMinutes, b \in QueryMinutes :
             /\ Wider(a, b)
             /\ CountIn(rm, a, b) > CountIn(rm, QStart, QEnd)
             /\ CountIn(rm, a, b) - CountIn(rm, QStart, QEnd)
                   = (b - a) - (QEnd - QStart)
             => AtMost(CoverageOf(a, b), ret)

\* days "M-F", hours "0900-1800", Monday 08:00-10:00, coverage 1/2: widened to
\* 08:00-13:00 by 180 regulated minutes the coverage is 1/5
C22_Witness ==
    /\ InCalculateCoverage
    /\ call.props = [days |-> Str(<<"M","-","F">>),
                     hours |-> Str(<<"0","9","0","0","-","1","8","0","0">>),
                     regulation |-> NoParkingText, hrlimit |-> Undefined]
    /\ call.start = Date(1, 8, 0)
    /\ call.end = Date(1, 10, 0)
    /\ ret = Quotient(1, 2)
    /\ CountIn(RegulatedToday, 480, 780) - CountIn(RegulatedToday, 480, 600) = 180
    /\ CoverageOf(480, 780) = Quotient(1, 5)

\* C27: for a no-parking record whose window is same-day (end > start),
\* all-day or unparseable, or whose days are Unrestricted, and a same-day
\* query of positive duration, calculateCoverage is the fraction of the
\* minutes of the query at which isActiveAt is false, and intersectsRange is
\* true iff isActiveAt is true at one of these minutes.
C27_CoverageIsInactiveShare ==
    InCalculateCoverage /\ NoParkingRecord /\ QStart < QEnd
        /\ \/ ActiveDays = Null
           \/ TimeRange = Null
           \/ JsLt(TimeRange.startMin, TimeRange.endMin)
    => LET activeDays == ActiveDays
           timeRange  == TimeRange
           inactive   == Cardinality({m \in QStart..(QEnd - 1) :
                             ~ActiveWhen(activeDays, timeRange, QueryDay, m)})
       IN /\ ret = Quotient(inactive, Duration)
          /\ intersectsRange(call.props, call.start, call.end)
                <=> inactive < Duration

\* no days, hours "2200-0600", tow-away, 06:00-23:59 on a Saturday: active in
\* the last 119 of the 1079 minutes
C27_Witness ==
    /\ InCalculateCoverage
    /\ call.props = [days |-> Undefined,
                     hours |-> Str(<<"2","2","0","0","-","0","6","0","0">>),
                     regulation |-> TowawayText, hrlimit |-> Undefined]
    /\ call.start = Date(6, 6, 0)
    /\ call.end = Date(6, 23, 59)
    /\ ret = Quotient(960, 1079)

(***************************************************************************)
(* Properties of the colours of the map                                    *)
(***************************************************************************)
InDraw == call.fn = "draw"
InRangeMode ==
    InDraw /\ call.filters.simulationEnabled
        /\ call.filters.simulationMode = "range"
InAtMode ==
    InDraw /\ call.filters.simulationEnabled
        /\ call.filters.simulationMode = "at"
\* the coverage of the segment over the range of the filters
SegmentCoverage ==
    calculateCoverage(call.props, call.filters.rangeStart, call.filters.rangeEnd)
\* the regulation of the segment is active at the time of the filters
SegmentActive == isActiveAt(call.props, call.filters.atTime)
\* the text of the segment is one that forbids parking
CannotParkSegment ==
    call.props.regulation \in
        {NoParkingText, TowAwayText, TowawayText, CommercialText, PermitOnlyText}

\* C23: in range mode every displayed segment is coloured from its coverage
\* alone: blue exactly when the coverage is 100%, yellow exactly when it is
\* strictly between 0 and 100%, red exactly when it is 0.
C23_ColourByCoverage ==
    InRangeMode /\ ret.shown
    => LET coverage == SegmentCoverage
       IN /\ ret.style.color = Blue <=> coverage = One
          /\ ret.style.color = Yellow
                <=> (0 < coverage.num /\ coverage.num < coverage.den)
          /\ ret.style.color = Red <=> coverage = Zero

\* C24 as stated: in at mode a segment is shown red exactly when its
\* regulation is active at the selected time and forbids parking; every other
\* segment of the loaded data is shown blue.
C24_Original ==
    InAtMode
    => IF SegmentActive /\ CannotParkSegment
       THEN ret.shown /\ ret.style.color = Red
       ELSE ret.shown /\ ret.style.color = Blue

\* C24, amended: in at mode a segment is displayed unless "Dim inactive
\* rules" is off and its regulation is inactive at the selected time; a
\* displayed segment is red exactly when its regulation is active and forbids
\* parking, and every other displayed segment is blue.
C24_AtModeColours ==
    InAtMode
    => /\ ret.shown <=> (call.filters.showInactiveDim \/ SegmentActive)
       /\ ret.shown
          => ret.style.color =
                IF SegmentActive /\ CannotParkSegment THEN Red ELSE Blue

\* days "M-F", hours "0900-1800", "Commercial loading", Monday 09:00: red
C24_Witness ==
    /\ InAtMode
    /\ call.props = [days |-> Str(<<"M","-","F">>),
                     hours |-> Str(<<"0","9","0","0","-","1","8","0","0">>),
                     regulation |-> CommercialText, hrlimit |-> Undefined]
    /\ call.filters.atTime = Date(1, 9, 0)
    /\ ret.shown
    /\ ret.style.color = Red

(***************************************************************************)
(* Properties of the loading of the map                                    *)
(***************************************************************************)
\* the last moveend event
LastMove == moves[Len(moves)]

\* C28: at most one load timer is pending at any time; each moveend cancels
\* the pending timer and starts a new one, so that of a burst of moveend
\* events, each less than 300 ms after the one before, only the last issues a
\* fetch, exactly one, with the bounds of that event, and a fetch is issued
\* only after 300 ms without a further moveend.
C28_Debounce ==
    /\ Cardinality(timeouts) <= 1
    /\ \A t \in timeouts :
          /\ t.id = timer
          /\ t.due = LastMove.at + 300
          /\ t.bounds = LastMove.bounds
    /\ \A i \in 1..Len(fetches) :
          /\ fetches[i].bounds = moves[fetches[i].move].bounds
          /\ fetches[i].at >= moves[fetches[i].move].at + 300
          /\ \A j \in 1..Len(fetches) : fetches[j].move = fetches[i].move => j = i
          /\ \A k \in 1..(Len(moves) - 1) :
                moves[k + 1].at < moves[k].at + 300 => fetches[i].move # k
    /\ timeouts = {} /\ moves # <<>>
       => \E i \in 1..Len(fetches) : fetches[i].move = Len(moves)

\* three moveend events at 0, 100 and 200 ms, the last to viewport "B", have
\* issued one fetch, for "B"
C28_Witness ==
    /\ Len(moves) = 3
    /\ moves[1] = [at |-> 0, bounds |-> "A"]
    /\ moves[2].at = 100
    /\ moves[3] = [at |-> 200, bounds |-> "B"]
    /\ Len(fetches) = 1
    /\ fetches[1].bounds = "B"
    /\ timeouts = {}

\* the load that was issued last
LastFetch == fetches[Len(fetches)]
\* every load was answered with a FeatureCollection
AllSucceeded == \A i \in 1..Len(done) : done[i].kind = "ok"
\* the features of the answer to load id
FeaturesOf(id) == done[CHOOSE i \in 1..Len(done) : done[i].id = id].features

\* C29: when two or more loads were in flight at once, after all of them have
\* completed the displayed dataset and the status text are those of the load
\* that was issued last, whatever the order of the responses.
C29_LastIssuedWins ==
    concurrent /\ loads = {} /\ timeouts = {} /\ AllSucceeded
    => /\ geojson = [of |-> LastFetch.id, bounds |-> LastFetch.bounds,
                     features |-> FeaturesOf(LastFetch.id)]
       /\ status = LoadedText(FeaturesOf(LastFetch.id))

\* the response that arrived last
LastDone == done[Len(done)]

\* C30: when a load fails (network error or non-OK response) the status
\* becomes "Error loading data" and the dataset is left as it was; the status
\* "Loaded (n)" is only ever set together with the replacement of the dataset
\* by the response of n features.
C30_FailureKeepsData ==
    /\ [](\A n \in 0..MaxFeatures :
             status = LoadedText(n) => geojson # Null /\ geojson.features = n)
    /\ [][/\ Len(done') > Len(done)
             /\ done'[Len(done')].kind \in {"network", "status"}
             => status' = ErrorText /\ geojson' = geojson
          /\ status' # status /\ (\E n \in 0..MaxFeatures : status' = LoadedText(n))
             => /\ Len(done') > Len(done)
                /\ geojson' = [of |-> done'[Len(done')].id,
                               bounds |-> fetches[done'[Len(done')].id].bounds,
                               features |-> done'[Len(done')].features]
                /\ status' = LoadedText(geojson'.features)]_vars

\* the second load failed with a 400: the one feature of the first is still
\* there under the status "Error loading data"
C30_Witness ==
    /\ Len(done) = 2
    /\ done[1] = [id |-> 1, kind |-> "ok", features |-> 1]
    /\ done[2] = [id |-> 2, kind |-> "status", features |-> 0]
    /\ geojson = [of |-> 1, bounds |-> fetches[1].bounds, features |-> 1]
    /\ status = ErrorText

=============================================================================
